---- MODULE Spec2Model ----
(***************************************************************************)
(* Model of compact_jobs_dashboard.py: load_data (fetch the sheet, derive   *)
(* avgSalary, avgExperience, experienceCategory), the five KPI expressions   *)
(* of main and the five chart functions, as far as the values they compute.  *)
(* Drawing (matplotlib, WordCloud, streamlit layout) is outside the model.   *)
(*                                                                           *)
(* Numbers: a salary cell is a natural or null (NaN); an experience cell is  *)
(* a number of hundredths of a year or null.  A value produced by a division *)
(* is kept as an exact fraction [num, den] with den > 0.                     *)
(* Text is a sequence of one-character strings.                              *)
(***************************************************************************)
EXTENDS Integers, Sequences, FiniteSets, TLC

VARIABLES
  source,   \* what the sheet URL serves: reachable or not, its columns, its rows
  pc,       \* position of the script
  df,       \* the table main holds after load_data returned
  error,    \* the exception that ended the script, "none" while it runs
  kpi,      \* the five KPI values of main, each None until computed
  chart     \* the series each create_chart computes, each None until computed

vars == <<source, pc, df, error, kpi, chart>>

---------------------------------------------------------------------------
(* Cells and outcomes *)

\* A cell is None (null / NaN) or Some(v).
None == <<>>
Some(v) == <<v>>
IsNull(c) == c = <<>>
Val(c) == c[1]

\* The outcome of an expression: a value, or the exception it raises.
Ok(v) == [err |-> "none", val |-> <<v>>]
Raise(e) == [err |-> e, val |-> <<>>]

Frac(n, d) == [num |-> n, den |-> d]
FracLeq(f, k) == f.num <= k * f.den
FracEq(f, g) == f.num * g.den = g.num * f.den

RECURSIVE SumSeq(_)
SumSeq(s) == IF s = <<>> THEN 0 ELSE Head(s) + SumSeq(Tail(s))

\* The non-null cells of a column, in row order.
NotNull(cells) == SelectSeq(cells, LAMBDA c : ~IsNull(c))

Range(s) == {s[i] : i \in DOMAIN s}

---------------------------------------------------------------------------
(* Bounds of the explored inputs *)

MaxRows == 3        \* rows of a sheet that varies one text column or the bands
MaxSalaryRows == 2  \* rows of a sheet that varies company and salary bounds
MaxPieces == 3      \* fragments concatenated into one tagsAndSkills cell

---------------------------------------------------------------------------
(* The sheet *)

Columns ==
  {"title", "companyName", "location", "tagsAndSkills",
   "minimumSalary", "maximumSalary", "minimumExperience", "maximumExperience"}

DefaultRow ==
  [title |-> Some("A"), companyName |-> Some("X"), location |-> Some("P"),
   tagsAndSkills |-> None,
   minimumSalary |-> Some(1000), maximumSalary |-> Some(2000),
   minimumExperience |-> Some(200), maximumExperience |-> Some(400)]

\* A row of a sheet that lacks some columns holds nothing in them.
Mask(row, cols) == [c \in DOMAIN row |-> IF c \in cols THEN row[c] ELSE None]

SeqsUpTo(S, n) == UNION {[1..k -> S] : k \in 0..n}

TitleCells == {None, Some("A"), Some("B"), Some("C")}
LocationCells == {None, Some("P"), Some("Q")}
CompanyCells == {Some("X"), Some("Y")}
SalaryCells == {None, Some(1000), Some(2001)}
\* Experience cells are in hundredths of a year.  These put the mean on every
\* band boundary (1.00, 3.00, 5.00, 10.00) and 0.005 and 0.01 above it.
ExperienceCells ==
  {None, Some(0), Some(100), Some(101), Some(300), Some(301),
   Some(500), Some(501), Some(1000), Some(1001)}
\* One pair per band (0-1, 1-3, 3-5, 5-10, 11-13 years), and the pairs with a
\* bound missing.
BandPairs ==
  {<<Some(0), Some(100)>>, <<Some(100), Some(300)>>, <<Some(300), Some(500)>>,
   <<Some(500), Some(1000)>>, <<Some(1100), Some(1300)>>,
   <<None, Some(100)>>, <<Some(0), None>>}

Fragments ==
  {<<"S","k","i","l","l","s">>, <<"S","K","I","L","L","S">>, <<"S","Q","L">>,
   <<"p","y">>, <<"J","a","v","a","_","8">>, <<" ">>, <<",">>}

RECURSIVE Concat(_)
Concat(ss) == IF ss = <<>> THEN <<>> ELSE Head(ss) \o Concat(Tail(ss))

Texts(n) == {Concat(ps) : ps \in SeqsUpTo(Fragments, n)}

TitleRows == {[DefaultRow EXCEPT !.title = t] : t \in TitleCells}
LocationRows == {[DefaultRow EXCEPT !.location = l] : l \in LocationCells}
SalaryRows ==
  {[DefaultRow EXCEPT !.companyName = c, !.minimumSalary = a, !.maximumSalary = b] :
     c \in CompanyCells, a \in SalaryCells, b \in SalaryCells}
BandRows ==
  {[DefaultRow EXCEPT !.minimumExperience = p[1], !.maximumExperience = p[2]] :
     p \in BandPairs}
ExperienceRows ==
  {[DefaultRow EXCEPT !.minimumExperience = a, !.maximumExperience = b] :
     a \in ExperienceCells, b \in ExperienceCells}
SkillRows(n) == {[DefaultRow EXCEPT !.tagsAndSkills = s] : s \in {None} \cup {Some(t) : t \in Texts(n)}}

\* The row lists the sheet may hold.
RowLists ==
  SeqsUpTo(TitleRows, MaxRows) \cup SeqsUpTo(LocationRows, MaxRows)
    \cup SeqsUpTo(SalaryRows, MaxSalaryRows) \cup SeqsUpTo(BandRows, MaxRows)
    \cup {<<r>> : r \in ExperienceRows}
    \cup SeqsUpTo(SkillRows(1), MaxRows) \cup {<<r>> : r \in SkillRows(MaxPieces)}

Unreachable == [reachable |-> FALSE, cols |-> {}, rows |-> <<>>]

Sources ==
  {Unreachable}
    \cup {[reachable |-> TRUE, cols |-> Columns, rows |-> rs] : rs \in RowLists}
    \cup {[reachable |-> TRUE, cols |-> cs, rows |-> <<Mask(DefaultRow, cs)>>] :
            cs \in SUBSET Columns}

---------------------------------------------------------------------------
(* load_data *)

\* (a + b) / 2 on two cells that count units of 1/per: NaN when either is NaN.
mean_of_bounds(a, b, per) ==
  IF IsNull(a) \/ IsNull(b) THEN None ELSE Some(Frac(Val(a) + Val(b), 2 * per))

\* categorize_experience with < in place of <=.
categorize_experience_strict(exp) ==
  IF ~IsNull(exp) /\ Val(exp).num < 1 * Val(exp).den THEN "Fresher (0-1 years)"
  ELSE IF ~IsNull(exp) /\ Val(exp).num < 3 * Val(exp).den THEN "Entry Level (1-3 years)"
  ELSE IF ~IsNull(exp) /\ Val(exp).num < 5 * Val(exp).den THEN "Mid Level (3-5 years)"
  ELSE IF ~IsNull(exp) /\ Val(exp).num < 10 * Val(exp).den THEN "Senior Level (5-10 years)"
  ELSE "Expert Level (10+ years)"

\* categorize_experience written with negated tests (if not exp > 1), which
\* NaN passes.
categorize_experience_negated(exp) ==
  IF IsNull(exp) \/ FracLeq(Val(exp), 1) THEN "Fresher (0-1 years)"
  ELSE IF FracLeq(Val(exp), 3) THEN "Entry Level (1-3 years)"
  ELSE IF FracLeq(Val(exp), 5) THEN "Mid Level (3-5 years)"
  ELSE IF FracLeq(Val(exp), 10) THEN "Senior Level (5-10 years)"
  ELSE "Expert Level (10+ years)"

\* exp is a cell holding a fraction; every comparison with NaN is false.
categorize_experience(exp) ==
  IF ~IsNull(exp) /\ FracLeq(Val(exp), 1) THEN "Fresher (0-1 years)"
  ELSE IF ~IsNull(exp) /\ FracLeq(Val(exp), 3) THEN "Entry Level (1-3 years)"
  ELSE IF ~IsNull(exp) /\ FracLeq(Val(exp), 5) THEN "Mid Level (3-5 years)"
  ELSE IF ~IsNull(exp) /\ FracLeq(Val(exp), 10) THEN "Senior Level (5-10 years)"
  ELSE "Expert Level (10+ years)"

derive_row(row) ==
  LET sal == mean_of_bounds(row.minimumSalary, row.maximumSalary, 1)
      exp == mean_of_bounds(row.minimumExperience, row.maximumExperience, 100)
  IN  [title |-> row.title, companyName |-> row.companyName, location |-> row.location,
       tagsAndSkills |-> row.tagsAndSkills,
       minimumSalary |-> row.minimumSalary, maximumSalary |-> row.maximumSalary,
       minimumExperience |-> row.minimumExperience,
       maximumExperience |-> row.maximumExperience,
       avgSalary |-> sal, avgExperience |-> exp,
       experienceCategory |-> categorize_experience(exp)]

NoTable == [cols |-> {}, rows |-> <<>>]

\* load_data that reads an absent column as a column of NaN.
load_data_lenient(src) ==
  IF ~src.reachable THEN Raise("StopException")
  ELSE Ok([cols |-> src.cols \cup {"avgSalary", "avgExperience", "experienceCategory"},
           rows |-> [i \in DOMAIN src.rows |-> derive_row(src.rows[i])]])

\* The outcome of load_data on what the URL serves.
load_data(src) ==
  IF ~src.reachable THEN Raise("StopException")
  ELSE IF ~({"minimumSalary", "maximumSalary"} \subseteq src.cols) THEN Raise("KeyError")
  ELSE IF ~({"minimumExperience", "maximumExperience"} \subseteq src.cols)
    THEN Raise("KeyError")
  ELSE Ok([cols |-> src.cols \cup {"avgSalary", "avgExperience", "experienceCategory"},
           rows |-> [i \in DOMAIN src.rows |-> derive_row(src.rows[i])]])

---------------------------------------------------------------------------
(* pandas helpers as the script uses them *)

column(d, name) == [i \in DOMAIN d.rows |-> d.rows[i][name]]

\* Series.mean() that counts the NaN cells in the denominator.
series_mean_keepna(cells) ==
  LET xs == NotNull(cells)
  IN  IF xs = <<>> THEN None
      ELSE Some(Frac(SumSeq([i \in DOMAIN xs |-> Val(xs[i]).num]),
                     Val(xs[1]).den * Len(cells)))

\* Series.mean(): NaN cells are skipped; NaN when nothing is left.  The cells
\* of a derived column share one denominator.
series_mean(cells) ==
  LET xs == NotNull(cells)
  IN  IF xs = <<>> THEN None
      ELSE Some(Frac(SumSeq([i \in DOMAIN xs |-> Val(xs[i]).num]),
                     Val(xs[1]).den * Len(xs)))

CountOf(cells, k) == Cardinality({i \in DOMAIN cells : cells[i] = Some(k)})
Keys(cells) == {Val(cells[i]) : i \in {j \in DOMAIN cells : ~IsNull(cells[j])}}

\* Every listing of the keys by non-increasing weight.  sort_values uses the
\* default quicksort, which fixes no order among equal weights.
RECURSIVE Descending(_, _)
Descending(keys, w) ==
  IF keys = {} THEN {<<>>}
  ELSE LET top == {k \in keys : \A j \in keys : w[j] <= w[k]}
       IN  UNION {{<<k>> \o rest : rest \in Descending(keys \ {k}, w)} : k \in top}

\* Series.value_counts(): the non-null values with their counts, most frequent
\* first; the set of the series it may return.
value_counts(cells) ==
  LET ks == Keys(cells)
      cnt == [k \in ks |-> CountOf(cells, k)]
  IN  {[i \in DOMAIN o |-> [key |-> o[i], count |-> cnt[o[i]]]] : o \in Descending(ks, cnt)}

\* Series.head(n)
head(s, n) == SubSeq(s, 1, IF Len(s) < n THEN Len(s) ELSE n)

---------------------------------------------------------------------------
(* The KPI expressions of main *)

total_jobs(d) == Ok(Len(d.rows))

avg_salary(d) == Ok(series_mean(column(d, "avgSalary")))

avg_exp(d) == Ok(series_mean(column(d, "avgExperience")))

\* df['location'].value_counts().index[0]: the outcomes it may have.
top_city(d) ==
  IF "location" \notin d.cols THEN {Raise("KeyError")}
  ELSE {IF vc = <<>> THEN Raise("IndexError") ELSE Ok(vc[1].key) :
          vc \in value_counts(column(d, "location"))}

\* (len(df[df['experienceCategory'] == 'Fresher (0-1 years)']) / len(df)) * 100
fresher_pct(d) ==
  LET cat == column(d, "experienceCategory")
      n == Cardinality({i \in DOMAIN cat : cat[i] = "Fresher (0-1 years)"})
  IN  IF Len(d.rows) = 0 THEN Raise("ZeroDivisionError")
      ELSE Ok(Frac(n * 100, Len(d.rows)))

---------------------------------------------------------------------------
(* create_wordcloud *)

UpperCase ==
  <<"A","B","C","D","E","F","G","H","I","J","K","L","M",
    "N","O","P","Q","R","S","T","U","V","W","X","Y","Z">>
LowerCase ==
  <<"a","b","c","d","e","f","g","h","i","j","k","l","m",
    "n","o","p","q","r","s","t","u","v","w","x","y","z">>
Digits == {"0","1","2","3","4","5","6","7","8","9"}

\* str.lower() on one character
lower_char(c) ==
  IF \E i \in DOMAIN UpperCase : UpperCase[i] = c
  THEN LowerCase[CHOOSE i \in DOMAIN UpperCase : UpperCase[i] = c]
  ELSE c

lower(t) == [i \in DOMAIN t |-> lower_char(t[i])]

\* \w
is_word_char(c) == c \in Range(UpperCase) \cup Range(LowerCase) \cup Digits \cup {"_"}

\* re.findall(r'\b\w+\b', t): the maximal runs of word characters, left to right.
RECURSIVE scan(_, _, _)
scan(t, cur, acc) ==
  IF t = <<>> THEN (IF cur = <<>> THEN acc ELSE Append(acc, cur))
  ELSE IF is_word_char(Head(t)) THEN scan(Tail(t), Append(cur, Head(t)), acc)
  ELSE scan(Tail(t), <<>>, IF cur = <<>> THEN acc ELSE Append(acc, cur))

findall(t) == scan(t, <<>>, <<>>)

\* ' '.join(items)
RECURSIVE join(_)
join(items) ==
  IF items = <<>> THEN <<>>
  ELSE IF Len(items) = 1 THEN Head(items)
  ELSE Head(items) \o <<" ">> \o join(Tail(items))

stop_words ==
  {
    <<"a","n","d">>, <<"o","r">>, <<"t","h","e">>, <<"a">>, <<"a","n">>, <<"i","n">>,
    <<"o","n">>, <<"a","t">>, <<"t","o">>, <<"f","o","r">>, <<"o","f">>, <<"w","i","t","h">>,
    <<"b","y">>, <<"i","s">>, <<"a","r","e">>, <<"w","a","s">>, <<"w","e","r","e">>,
    <<"b","e">>, <<"b","e","e","n">>, <<"b","e","i","n","g">>, <<"h","a","v","e">>,
    <<"h","a","s">>, <<"h","a","d">>, <<"d","o">>, <<"d","o","e","s">>, <<"d","i","d">>,
    <<"w","i","l","l">>, <<"w","o","u","l","d">>, <<"c","o","u","l","d">>,
    <<"s","h","o","u","l","d">>, <<"m","a","y">>, <<"m","i","g","h","t">>, <<"m","u","s","t">>,
    <<"c","a","n">>, <<"s","h","a","l","l">>, <<"s","k","i","l","l","s">>,
    <<"s","k","i","l","l">>, <<"e","x","p","e","r","i","e","n","c","e">>,
    <<"r","e","q","u","i","r","e","d">>, <<"y","e","a","r","s">>, <<"y","e","a","r">>,
    <<"w","o","r","k">>
  }

\* create_wordcloud without the .lower().
create_wordcloud_cased(text_data) ==
  IF text_data = <<>> THEN <<>>
  ELSE LET kept == NotNull(text_data)
           all_text == join([i \in DOMAIN kept |-> Val(kept[i])])
           words == findall(all_text)
       IN  SelectSeq(words, LAMBDA word : word \notin stop_words /\ Len(word) > 2)

\* The words create_wordcloud hands to WordCloud.generate; empty when it returns
\* None.  text_data is a sequence of cells.
create_wordcloud(text_data) ==
  IF text_data = <<>> THEN <<>>
  ELSE LET kept == NotNull(text_data)
           all_text == join([i \in DOMAIN kept |-> Val(kept[i])])
           words == findall(lower(all_text))
       IN  SelectSeq(words, LAMBDA word : word \notin stop_words /\ Len(word) > 2)

---------------------------------------------------------------------------
(* The chart functions: the series each one plots *)

TopN == 10

create_chart1(d) ==
  IF "title" \notin d.cols THEN {Raise("KeyError")}
  ELSE {Ok(head(vc, TopN)) : vc \in value_counts(column(d, "title"))}

create_chart2(d) ==
  IF "location" \notin d.cols THEN {Raise("KeyError")}
  ELSE {Ok(head(vc, TopN)) : vc \in value_counts(column(d, "location"))}

create_chart3(d) ==
  IF "tagsAndSkills" \notin d.cols THEN Raise("KeyError")
  ELSE Ok(create_wordcloud(NotNull(column(d, "tagsAndSkills"))))

\* numpy round to 0 decimals of a non-negative fraction: half goes to even.
round0(f) ==
  LET q == f.num \div f.den
      r == f.num % f.den
  IN  IF 2 * r < f.den THEN q
      ELSE IF 2 * r > f.den THEN q + 1
      ELSE IF q % 2 = 0 THEN q ELSE q + 1

\* groupby lists its keys sorted; the company names of the model in that order.
SortedCompanies == <<"X", "Y">>

\* df.groupby('companyName')['avgSalary'].mean().round(0): rows with a null
\* company are dropped, a group with no salary has mean NaN.
company_means(d) ==
  LET names == column(d, "companyName")
      groups == SelectSeq(SortedCompanies, LAMBDA c : c \in Keys(names))
      sal(c) == [i \in DOMAIN d.rows |->
                   IF names[i] = Some(c) THEN d.rows[i].avgSalary ELSE None]
      m(c) == series_mean(sal(c))
  IN  [i \in DOMAIN groups |->
         [key |-> groups[i],
          value |-> IF IsNull(m(groups[i])) THEN None ELSE Some(round0(Val(m(groups[i]))))]]

\* Series.sort_values(ascending=False): the values in every non-increasing
\* order, then the NaN entries in the order they had.
sort_values_desc(s) ==
  LET valued == {i \in DOMAIN s : ~IsNull(s[i].value)}
      w == [i \in valued |-> Val(s[i].value)]
      nans == SelectSeq(s, LAMBDA e : IsNull(e.value))
  IN  {[j \in DOMAIN o |-> s[o[j]]] \o nans : o \in Descending(valued, w)}

create_chart6(d) ==
  IF "companyName" \notin d.cols THEN {Raise("KeyError")}
  ELSE {Ok(head(o, TopN)) : o \in sort_values_desc(company_means(d))}

\* create_chart8 that drops the rows without an avgExperience first.
create_chart8_dropna(d) ==
  LET kept == SelectSeq(d.rows, LAMBDA r : ~IsNull(r.avgExperience))
  IN  {Ok(vc) : vc \in value_counts([i \in DOMAIN kept |-> Some(kept[i].experienceCategory)])}

create_chart8(d) ==
  {Ok(vc) : vc \in value_counts([i \in DOMAIN d.rows |-> Some(d.rows[i].experienceCategory)])}

---------------------------------------------------------------------------
(* main *)

Unset == [total_jobs |-> None, avg_salary |-> None, avg_exp |-> None,
          top_city |-> None, fresher_pct |-> None]
NoCharts == [chart1 |-> None, chart2 |-> None, chart3 |-> None,
             chart6 |-> None, chart8 |-> None]

Init ==
  /\ source \in Sources
  /\ pc = "start"
  /\ df = NoTable
  /\ error = "none"
  /\ kpi = Unset
  /\ chart = NoCharts

\* One step of main that computes a KPI: r is the outcome of its expression.
KpiStep(name, r, next) ==
  /\ kpi' = IF r.err = "none" THEN [kpi EXCEPT ![name] = Some(Val(r.val))] ELSE kpi
  /\ error' = r.err
  /\ pc' = IF r.err = "none" THEN next ELSE "crashed"
  /\ UNCHANGED <<source, df, chart>>

\* One step of main that computes the series of a chart.
ChartStep(name, r, next) ==
  /\ chart' = IF r.err = "none" THEN [chart EXCEPT ![name] = Some(Val(r.val))] ELSE chart
  /\ error' = r.err
  /\ pc' = IF r.err = "none" THEN next ELSE "crashed"
  /\ UNCHANGED <<source, df, kpi>>

\* df = load_data(): st.stop() and an uncaught KeyError both end the script.
Load ==
  /\ pc = "start"
  /\ LET r == load_data(source)
     IN  /\ df' = IF r.err = "none" THEN Val(r.val) ELSE df
         /\ error' = r.err
         /\ pc' = IF r.err = "none" THEN "loaded"
                  ELSE IF r.err = "StopException" THEN "stopped" ELSE "crashed"
  /\ UNCHANGED <<source, kpi, chart>>

\* The script in its order; pc names the last step that completed.
Col1 == pc = "loaded" /\ KpiStep("total_jobs", total_jobs(df), "col1")
Col2 == pc = "col1" /\ KpiStep("avg_salary", avg_salary(df), "col2")
Col3 == pc = "col2" /\ KpiStep("avg_exp", avg_exp(df), "col3")
Col4 == pc = "col3" /\ \E r \in top_city(df) : KpiStep("top_city", r, "col4")
Col5 == pc = "col4" /\ KpiStep("fresher_pct", fresher_pct(df), "col5")
Chart1 == pc = "col5" /\ \E r \in create_chart1(df) : ChartStep("chart1", r, "chart1")
Chart2 == pc = "chart1" /\ \E r \in create_chart2(df) : ChartStep("chart2", r, "chart2")
Chart3 == pc = "chart2" /\ ChartStep("chart3", create_chart3(df), "chart3")
Chart6 == pc = "chart3" /\ \E r \in create_chart6(df) : ChartStep("chart6", r, "chart6")
Chart8 == pc = "chart6" /\ \E r \in create_chart8(df) : ChartStep("chart8", r, "done")

Next ==
  Load \/ Col1 \/ Col2 \/ Col3 \/ Col4 \/ Col5
    \/ Chart1 \/ Chart2 \/ Chart3 \/ Chart6 \/ Chart8

Spec == Init /\ [][Next]_vars

---------------------------------------------------------------------------
(* Each aggregation applied on its own to the loaded table *)

ApplyTotalJobs == pc = "loaded" /\ KpiStep("total_jobs", total_jobs(df), "applied")
ApplyAvgSalary == pc = "loaded" /\ KpiStep("avg_salary", avg_salary(df), "applied")
ApplyAvgExp == pc = "loaded" /\ KpiStep("avg_exp", avg_exp(df), "applied")
ApplyTopCity == pc = "loaded" /\ \E r \in top_city(df) : KpiStep("top_city", r, "applied")
ApplyFresherPct == pc = "loaded" /\ KpiStep("fresher_pct", fresher_pct(df), "applied")
ApplyChart1 == pc = "loaded" /\ \E r \in create_chart1(df) : ChartStep("chart1", r, "applied")
ApplyChart2 == pc = "loaded" /\ \E r \in create_chart2(df) : ChartStep("chart2", r, "applied")
ApplyChart3 == pc = "loaded" /\ ChartStep("chart3", create_chart3(df), "applied")
ApplyChart6 == pc = "loaded" /\ \E r \in create_chart6(df) : ChartStep("chart6", r, "applied")
ApplyChart8 == pc = "loaded" /\ \E r \in create_chart8(df) : ChartStep("chart8", r, "applied")

NextFn ==
  Load \/ ApplyTotalJobs \/ ApplyAvgSalary \/ ApplyAvgExp \/ ApplyTopCity
    \/ ApplyFresherPct \/ ApplyChart1 \/ ApplyChart2 \/ ApplyChart3
    \/ ApplyChart6 \/ ApplyChart8

SpecFn == Init /\ [][NextFn]_vars

---------------------------------------------------------------------------
(* Properties *)

Required == {"minimumSalary", "maximumSalary", "minimumExperience", "maximumExperience"}

LoadFails == ~source.reachable \/ ~(Required \subseteq source.cols)

Bands ==
  {"Fresher (0-1 years)", "Entry Level (1-3 years)", "Mid Level (3-5 years)",
   "Senior Level (5-10 years)", "Expert Level (10+ years)"}

\* The band of the mean of bounds a and b (hundredths of a year), read off the
\* interval table [0,1], (1,3], (3,5], (5,10], (10,inf): a + b is the mean in
\* two-hundredths of a year.
BandOfBounds(a, b) ==
  CASE a + b >= 0 /\ a + b <= 200 -> "Fresher (0-1 years)"
    [] a + b > 200 /\ a + b <= 600 -> "Entry Level (1-3 years)"
    [] a + b > 600 /\ a + b <= 1000 -> "Mid Level (3-5 years)"
    [] a + b > 1000 /\ a + b <= 2000 -> "Senior Level (5-10 years)"
    [] a + b > 2000 -> "Expert Level (10+ years)"

HasExperience(r) == ~IsNull(r.minimumExperience) /\ ~IsNull(r.maximumExperience)
HasSalary(r) == ~IsNull(r.minimumSalary) /\ ~IsNull(r.maximumSalary)

CountRows(rows, P(_)) == Cardinality({i \in DOMAIN rows : P(rows[i])})

\* C1: when the load fails (the source is unreachable, or one of minimumSalary,
\* maximumSalary, minimumExperience, maximumExperience is absent), the script
\* ends with the load's exception (st.stop() or the KeyError), main holds no
\* table, and no KPI and no chart is ever computed.
C1_NoAggregationAfterFailedLoad ==
  LoadFails =>
    /\ pc \in {"start", "stopped", "crashed"}
    /\ pc # "start" => error \in {"StopException", "KeyError"}
    /\ df = NoTable
    /\ kpi = Unset
    /\ chart = NoCharts

\* The fetch succeeded, the salary columns are there, an experience column is
\* not, and the script has ended in the KeyError.
C1_Witness ==
  /\ source.reachable
  /\ {"minimumSalary", "maximumSalary", "minimumExperience"} \subseteq source.cols
  /\ "maximumExperience" \notin source.cols
  /\ pc = "crashed"
  /\ error = "KeyError"

\* C2: fresherPercentage raises nothing; on an empty table it is 0, on a
\* non-empty one it is count(Fresher) / totalJobs * 100.
C2_FresherPctDefinedOnEmpty ==
  /\ error # "ZeroDivisionError"
  /\ ~IsNull(kpi.fresher_pct) =>
       LET n == Len(df.rows)
           k == CountRows(df.rows, LAMBDA r : r.experienceCategory = "Fresher (0-1 years)")
       IN  IF n = 0 THEN Val(kpi.fresher_pct).num = 0
           ELSE FracEq(Val(kpi.fresher_pct), Frac(100 * k, n))

\* C3: every row whose experience bounds are both present is in the band its
\* mean falls in: [0,1] Fresher, (1,3] Entry, (3,5] Mid, (5,10] Senior,
\* (10,inf) Expert; the boundaries 1, 3, 5, 10 belong to the lower band.
C3_BandsByInterval ==
  \A i \in DOMAIN df.rows :
    HasExperience(df.rows[i]) =>
      df.rows[i].experienceCategory =
        BandOfBounds(Val(df.rows[i].minimumExperience), Val(df.rows[i].maximumExperience))

\* A loaded row with mean experience exactly 10, in the Senior band.
C3_Witness ==
  /\ pc = "loaded"
  /\ Len(df.rows) = 1
  /\ \E i \in DOMAIN df.rows :
       /\ df.rows[i].minimumExperience = Some(1000)
       /\ df.rows[i].maximumExperience = Some(1000)
       /\ df.rows[i].experienceCategory = "Senior Level (5-10 years)"

\* C4: the counts of the experience distribution add up to the row count,
\* which is the totalJobs KPI, also when rows lack an experience bound.
C4_DistributionSumsToTotal ==
  ~IsNull(chart.chart8) =>
    LET dist == Val(chart.chart8)
    IN  /\ SumSeq([i \in DOMAIN dist |-> dist[i].count]) = Len(df.rows)
        /\ Val(kpi.total_jobs) = Len(df.rows)

\* The script ran to its end on a table of several rows, one of them without
\* a minimum experience.
C4_Witness ==
  /\ pc = "done"
  /\ Len(df.rows) >= 2
  /\ \E i \in DOMAIN df.rows : IsNull(df.rows[i].minimumExperience)
  /\ \E i \in DOMAIN df.rows : HasExperience(df.rows[i])

\* C5: the experience distribution lists all five bands, a band without rows
\* with count 0.
C5_AllFiveBandsReported ==
  ~IsNull(chart.chart8) =>
    LET dist == Val(chart.chart8)
    IN  /\ {dist[i].key : i \in DOMAIN dist} = Bands
        /\ \A i \in DOMAIN dist :
             dist[i].count =
               CountRows(df.rows, LAMBDA r : r.experienceCategory = dist[i].key)

\* C6: the companies-by-salary series has at most 10 entries, in descending
\* order of mean salary, and holds no company without a row with a salary.
C6_NoCompanyWithoutSalary ==
  ~IsNull(chart.chart6) =>
    LET top == Val(chart.chart6)
    IN  /\ Len(top) <= TopN
        /\ \A i \in DOMAIN top :
             \E j \in DOMAIN df.rows :
               df.rows[j].companyName = Some(top[i].key) /\ ~IsNull(df.rows[j].avgSalary)
        /\ \A i, j \in DOMAIN top :
             (i < j /\ ~IsNull(top[i].value) /\ ~IsNull(top[j].value)) =>
               Val(top[i].value) >= Val(top[j].value)

\* The first row that holds k.
FirstRow(cells, k) ==
  CHOOSE i \in DOMAIN cells : cells[i] = Some(k) /\ \A j \in 1..(i - 1) : cells[j] # Some(k)

\* C7: the title series has min(10, number of distinct titles) entries, in
\* descending order of count, titles of equal count in the order of their
\* first row.
C7_TiesByFirstOccurrence ==
  ~IsNull(chart.chart1) =>
    LET top == Val(chart.chart1)
        titles == column(df, "title")
        distinct == Cardinality(Keys(titles))
    IN  /\ Len(top) = IF distinct < TopN THEN distinct ELSE TopN
        /\ \A i, j \in DOMAIN top :
             i < j =>
               \/ top[i].count > top[j].count
               \/ /\ top[i].count = top[j].count
                  /\ FirstRow(titles, top[i].key) < FirstRow(titles, top[j].key)

IsBlank(cell) == IsNull(cell) \/ Val(cell) = <<>>

\* C8: every word of the skills frequency is lowercase, longer than 2, made of
\* word characters and no stop word, whatever the casing it had in the sheet;
\* a table whose skills cells are all null or empty gives no word.
C8_SkillWordsFiltered ==
  ~IsNull(chart.chart3) =>
    LET words == Val(chart.chart3)
    IN  /\ \A i \in DOMAIN words :
             /\ Len(words[i]) > 2
             /\ lower(words[i]) = words[i]
             /\ lower(words[i]) \notin stop_words
             /\ \A j \in DOMAIN words[i] : is_word_char(words[i][j])
        /\ (\A i \in DOMAIN df.rows : IsBlank(df.rows[i].tagsAndSkills)) => words = <<>>

\* The cell "SKILLS,SQL" has been tokenized: sql is the one word kept.
C8_Witness ==
  /\ \E i \in DOMAIN df.rows :
       df.rows[i].tagsAndSkills =
         Some(<<"S","K","I","L","L","S">> \o <<",">> \o <<"S","Q","L">>)
  /\ chart.chart3 = Some(<< <<"s","q","l">> >>)

\* C9: avgSalary is null exactly on the rows with a null salary bound and is
\* (minimumSalary + maximumSalary) / 2 on the others; averageSalary is the mean
\* of avgSalary over the rows that have one, NaN when there is none.
C9_AvgSalary ==
  /\ \A i \in DOMAIN df.rows :
       LET r == df.rows[i]
       IN  /\ IsNull(r.avgSalary) <=> ~HasSalary(r)
           /\ HasSalary(r) =>
                2 * Val(r.avgSalary).num =
                  (Val(r.minimumSalary) + Val(r.maximumSalary)) * Val(r.avgSalary).den
  /\ ~IsNull(kpi.avg_salary) =>
       LET m == Val(kpi.avg_salary)
           n == CountRows(df.rows, HasSalary)
           total == SumSeq([i \in DOMAIN df.rows |->
                      IF HasSalary(df.rows[i])
                      THEN Val(df.rows[i].minimumSalary) + Val(df.rows[i].maximumSalary)
                      ELSE 0])
       IN  IF n = 0 THEN IsNull(m)
           ELSE ~IsNull(m) /\ Val(m).num * 2 * n = total * Val(m).den

\* averageSalary has been computed on a table with a row that has a salary and
\* a row that has none.
C9_Witness ==
  /\ ~IsNull(kpi.avg_salary)
  /\ ~IsNull(Val(kpi.avg_salary))
  /\ \E i \in DOMAIN df.rows : HasSalary(df.rows[i])
  /\ \E i \in DOMAIN df.rows : ~HasSalary(df.rows[i])

\* C10: a row without an experience bound has a null avgExperience and is put
\* in the Expert band; the distribution counts it there, and fresherPercentage
\* counts only rows whose mean experience is known and at most 1.
C10_NullExperienceIsExpert ==
  /\ \A i \in DOMAIN df.rows :
       ~HasExperience(df.rows[i]) =>
         /\ IsNull(df.rows[i].avgExperience)
         /\ df.rows[i].experienceCategory = "Expert Level (10+ years)"
  /\ ~IsNull(chart.chart8) =>
       LET dist == Val(chart.chart8)
           nulls == CountRows(df.rows, LAMBDA r : ~HasExperience(r))
       IN  nulls > 0 =>
             \E i \in DOMAIN dist :
               dist[i].key = "Expert Level (10+ years)" /\ dist[i].count >= nulls
  /\ ~IsNull(kpi.fresher_pct) =>
       LET k == CountRows(df.rows,
                  LAMBDA r : HasExperience(r)
                    /\ Val(r.minimumExperience) + Val(r.maximumExperience) <= 200)
       IN  FracEq(Val(kpi.fresher_pct), Frac(100 * k, Len(df.rows)))

\* The script ran to its end on a table with a row whose only experience
\* bound is a maximum of 1 year; the distribution has an Expert entry.
C10_Witness ==
  /\ pc = "done"
  /\ \E i \in DOMAIN df.rows :
       /\ IsNull(df.rows[i].minimumExperience)
       /\ df.rows[i].maximumExperience = Some(100)
  /\ \E i \in DOMAIN Val(chart.chart8) :
       Val(chart.chart8)[i].key = "Expert Level (10+ years)"

====
